---- MODULE Spec2Model ----
(***************************************************************************)
(* Revision approval workflow of the knowledge-revision service.           *)
(*                                                                         *)
(* The services work on an SQLAlchemy unit of work: reads and writes go    *)
(* to the session, a commit makes the session's state the stored state, a  *)
(* rollback discards what the session holds.  `session` is what the code   *)
(* sees through the session, `store` what is committed.                    *)
(***************************************************************************)
EXTENDS Integers, Sequences, FiniteSets, TLC

(* ------------------------------ bounds --------------------------------- *)

MaxRevisions == 2
MaxWorkflowRevisions == 1
MaxVersion == 3
MaxResubmits == 1
MaxCalls == 2

(* ----------------------------- constants ------------------------------- *)

NoRev == [absent |-> TRUE]
None == "None"

DRAFT == "draft"
UNDER_REVIEW == "under_review"
REVISION_REQUESTED == "revision_requested"
APPROVED == "approved"
REJECTED == "rejected"
WITHDRAWN == "withdrawn"

RevisionStatus ==
    {DRAFT, UNDER_REVIEW, REVISION_REQUESTED, APPROVED, REJECTED, WITHDRAWN}

GENERAL == "general"
SUPERVISOR == "supervisor"
APPROVER == "approver"
ADMIN == "admin"

Role == {GENERAL, SUPERVISOR, APPROVER, ADMIN}

\* ApprovalAction has three members; there is no WITHDRAWN member.
ApprovalAction == {"approved", "rejected", "revision_requested"}

Users == {"gen1", "gen2", "sv", "app", "adm"}

\* The users that open revisions in the model.
Proposers == {"gen1", "app"}

role_of(u) ==
    CASE u = "gen1" -> GENERAL
      [] u = "gen2" -> GENERAL
      [] u = "sv" -> SUPERVISOR
      [] u = "app" -> APPROVER
      [] u = "adm" -> ADMIN

\* User.is_sv: the supervisor flag, which a user carries beside the role.
\* One General user has it set.
is_sv(u) == u = "gen2"

RevIds == 1..MaxRevisions

\* "A9" is an article id that no article carries.
Articles == {"A1", "A2"}
ArticleIds == Articles \cup {"A9"}

Fields == {"title", "importance"}
Values == {"a", "b"}
FieldValues(f) == IF f = "title" THEN Values ELSE {"a"}
Modifications ==
    {m \in [Fields -> Values \cup {None}] :
        \A f \in Fields : m[f] \in FieldValues(f) \cup {None}}

Outcomes ==
    {"ok", "NotFoundError", "InvalidStateError", "AuthorizationError",
     "ConflictError", "ValueError", "TypeError", "AttributeError"}

(* ------------------------------- state --------------------------------- *)

VARIABLES
    session,    \* the unit of work: what the services read and write
    store,      \* the committed rows
    next_id,    \* number of revision ids handed out so far
    last,       \* the last call: operation, arguments, outcome
    calls,      \* concurrent requests in flight, each on a session of its own
    edits,      \* per revision, how many update_revision calls returned
    rounds      \* per revision, how many moves to RevisionRequested were made

vars == <<session, store, next_id, last, calls, edits, rounds>>

EmptyData ==
    [revisions |-> [r \in RevIds |-> NoRev],
     approval_histories |-> <<>>,
     edit_histories |-> <<>>,
     instructions |-> <<>>]

Rev(d, r) == d.revisions[r]
Exists(d, r) == r \in RevIds /\ d.revisions[r] # NoRev
SetRev(d, r, rec) == [d EXCEPT !.revisions[r] = rec]

\* The record kept of a call: which operation, on which revision, and how
\* it ended ("ok" or the exception it raised).
Call(op, rid, actor, arg, outcome) ==
    [op |-> op, rid |-> rid, outcome |-> outcome]

(* --------------------------- WorkflowService --------------------------- *)

\* A table in which an Approved revision can be reopened as a Draft.
state_transitions_reopening(s) ==
    CASE s = DRAFT -> {UNDER_REVIEW, WITHDRAWN}
      [] s = UNDER_REVIEW -> {APPROVED, REJECTED, REVISION_REQUESTED}
      [] s = REVISION_REQUESTED -> {UNDER_REVIEW}
      [] s = APPROVED -> {DRAFT}
      [] s = REJECTED -> {}
      [] s = WITHDRAWN -> {}

state_transitions(s) ==
    CASE s = DRAFT -> {UNDER_REVIEW, WITHDRAWN}
      [] s = UNDER_REVIEW -> {APPROVED, REJECTED, REVISION_REQUESTED}
      [] s = REVISION_REQUESTED -> {UNDER_REVIEW}
      [] s = APPROVED -> {}
      [] s = REJECTED -> {}
      [] s = WITHDRAWN -> {}

validate_state_transition(current_status, new_status) ==
    new_status \in state_transitions(current_status)

is_terminal_status(status) == status \in {APPROVED, REJECTED, WITHDRAWN}

\* A gate that lets the reviewers make every transition.
check_transition_permission_of_reviewers(revision, new_status, user_id, user_role) ==
    IF user_role \in {ADMIN, APPROVER, SUPERVISOR} THEN TRUE
    ELSE IF revision.status \in {DRAFT, REVISION_REQUESTED}
         THEN revision.proposer_id = user_id
    ELSE FALSE

check_transition_permission(revision, new_status, user_id, user_role) ==
    IF user_role = ADMIN THEN TRUE
    ELSE IF revision.status = DRAFT /\ new_status = UNDER_REVIEW
         THEN revision.proposer_id = user_id
    ELSE IF revision.status = DRAFT /\ new_status = WITHDRAWN
         THEN revision.proposer_id = user_id
    ELSE IF revision.status = UNDER_REVIEW
         THEN user_role \in {APPROVER, SUPERVISOR}
    ELSE IF revision.status = REVISION_REQUESTED /\ new_status = UNDER_REVIEW
         THEN revision.proposer_id = user_id
    ELSE FALSE

\* The reason can_transition_to_status gives: "ok" when it allows.
can_transition_to_status(d, revision_id, new_status, user_id, user_role) ==
    IF ~Exists(d, revision_id) THEN "not_found"
    ELSE IF ~validate_state_transition(Rev(d, revision_id).status, new_status)
         THEN "invalid_transition"
    ELSE IF ~check_transition_permission(Rev(d, revision_id), new_status,
                                         user_id, user_role)
         THEN "no_permission"
    ELSE "ok"

\* A transition_status that raises one kind of exception per refusal.
transition_error_by_kind(verdict) ==
    CASE verdict = "ok" -> "ok"
      [] verdict = "not_found" -> "NotFoundError"
      [] verdict = "invalid_transition" -> "InvalidStateError"
      [] verdict = "no_permission" -> "AuthorizationError"

\* The exception transition_status raises for a verdict of
\* can_transition_to_status: every refusal is an AuthorizationError.
transition_error(verdict) ==
    IF verdict = "ok" THEN "ok" ELSE "AuthorizationError"

\* A transition that counts as an edit: it increments the version.
transitioned_as_edit(revision, new_status, user_id, comment) ==
    [revision EXCEPT !.status = new_status, !.version = @ + 1]

\* The revision as transition_status leaves it in the session.
transitioned(revision, new_status, user_id, comment) ==
    IF new_status = APPROVED
    THEN [revision EXCEPT !.status = new_status,
                          !.approver_id = user_id,
                          !.approved_at = TRUE,
                          !.approval_comment = comment]
    ELSE IF new_status = REJECTED
    THEN [revision EXCEPT !.status = new_status, !.approver_id = user_id]
    ELSE [revision EXCEPT !.status = new_status]

\* Rounds of request-modification the model follows for one revision.
CycleBound(r, new_status) ==
    new_status = REVISION_REQUESTED => rounds[r] < MaxResubmits + 1

Round(r, new_status, done) ==
    IF done /\ new_status = REVISION_REQUESTED
    THEN [rounds EXCEPT ![r] = @ + 1] ELSE rounds

transition_result(d, revision_id, new_status, user_id, comment) ==
    LET verdict == can_transition_to_status(d, revision_id, new_status,
                                            user_id, role_of(user_id))
    IN IF verdict = "ok"
       THEN SetRev(d, revision_id,
                   transitioned(Rev(d, revision_id), new_status,
                                user_id, comment))
       ELSE d

\* transition_status for calls drawn from the given users and statuses.
transition_status_of(users, statuses) ==
    \E revision_id \in RevIds, new_status \in statuses,
       user_id \in users, comment \in {None, "c"} :
        LET verdict == can_transition_to_status(session, revision_id,
                           new_status, user_id, role_of(user_id))
        IN /\ verdict = "ok" => CycleBound(revision_id, new_status)
           /\ session' = transition_result(session, revision_id, new_status,
                                           user_id, comment)
           /\ rounds' = Round(revision_id, new_status, verdict = "ok")
           /\ last' = Call("transition_status", revision_id, user_id,
                           new_status, transition_error(verdict))
           /\ UNCHANGED <<store, next_id, calls, edits>>

transition_status == transition_status_of(Users, RevisionStatus)

(* --------------------------- RevisionService --------------------------- *)

ActiveStatuses == {DRAFT, UNDER_REVIEW, REVISION_REQUESTED}

\* A check that counts Draft revisions only.
check_draft_revision_exists(d, article_id) ==
    \E r \in RevIds :
        /\ Exists(d, r)
        /\ Rev(d, r).target_article_id = article_id
        /\ Rev(d, r).status = DRAFT

check_active_revision_exists(d, article_id) ==
    \E r \in RevIds :
        /\ Exists(d, r)
        /\ Rev(d, r).target_article_id = article_id
        /\ Rev(d, r).status \in ActiveStatuses

\* The row create_revision builds: status Draft, version 1, the proposed
\* values of the fields the request carries.
new_revision(article_id, user_id, modifications) ==
    [target_article_id |-> article_id,
     proposer_id |-> user_id,
     status |-> DRAFT,
     reason |-> "r1",
     after |-> modifications,
     version |-> 1,
     approver_id |-> None,
     approved_at |-> FALSE,
     approval_comment |-> None]

\* What create_revision answers before it writes anything.
create_precheck(d, article_id) ==
    IF article_id \notin Articles THEN "NotFoundError"
    ELSE IF check_active_revision_exists(d, article_id) THEN "ConflictError"
    ELSE "ok"

\* The insert and the commit of create_revision.
create_insert(d, id, article_id, user_id, modifications) ==
    SetRev(d, id, new_revision(article_id, user_id, modifications))

\* RevisionCreate accepts modifications that set at least one field.
CreateModifications ==
    {m \in Modifications : \E f \in Fields : m[f] # None}

\* create_revision for requests drawn from the given articles, users and
\* modifications, while fewer than `limit` revisions were opened.
create_revision_of(articles, users, mods, limit) ==
    \E article_id \in articles, user_id \in users,
       modifications \in mods,
       fault \in {"none", "integrity"} :
        LET verdict == create_precheck(session, article_id)
            id == next_id + 1
        IN IF verdict # "ok"
           THEN /\ fault = "none"
                /\ last' = Call("create_revision", 0, user_id, article_id,
                                verdict)
                /\ UNCHANGED <<session, store, next_id, calls, edits, rounds>>
           ELSE /\ id \in RevIds
                /\ next_id < limit
                /\ IF fault = "integrity"
                   THEN \* IntegrityError on the insert: rollback
                        /\ session' = store
                        /\ last' = Call("create_revision", 0, user_id,
                                        article_id, "InvalidStateError")
                        /\ UNCHANGED <<store, next_id>>
                   ELSE /\ session' = create_insert(session, id, article_id,
                                                    user_id, modifications)
                        /\ store' = session'
                        /\ next_id' = id
                        /\ last' = Call("create_revision", id, user_id,
                                        article_id, "ok")
                /\ UNCHANGED <<calls, edits, rounds>>

create_revision ==
    create_revision_of(ArticleIds, Proposers, CreateModifications,
                       MaxRevisions)

\* A rule that lets the proposer edit in every status.
can_edit_own_revision(revision, user_id, user_role) ==
    user_role = ADMIN \/ revision.proposer_id = user_id

can_edit_revision_of_service(revision, user_id, user_role) ==
    IF user_role = ADMIN THEN TRUE
    ELSE IF revision.status = DRAFT THEN revision.proposer_id = user_id
    ELSE IF revision.status \in {UNDER_REVIEW, REVISION_REQUESTED}
         THEN user_role \in {APPROVER, SUPERVISOR}
              \/ revision.proposer_id = user_id
    ELSE FALSE

\* Requests of update_revision: an optional reason and optional
\* modifications, of which each field is optional.
NoModifications == [f \in Fields |-> None]
UpdateRequests ==
    [reason : {None, "r2"},
     has_modifications : BOOLEAN,
     modifications : Modifications]
UpdateData ==
    {u \in UpdateRequests :
        ~u.has_modifications => u.modifications = NoModifications}

\* The fields of a request that update_revision copies to the revision:
\* title (and the other text fields); importance is not among them.
AppliedFields == {"title"}

\* The changes update_revision collects for the edit history.
update_changes(revision, update_data) ==
    (IF update_data.reason # None
     THEN {[field |-> "reason", before |-> revision.reason,
            after |-> update_data.reason]}
     ELSE {})
    \cup
    {[field |-> f, before |-> revision.after[f],
      after |-> update_data.modifications[f]] :
        f \in {g \in AppliedFields :
                 /\ update_data.has_modifications
                 /\ update_data.modifications[g] # None}}

\* The revision as update_revision leaves it: the supplied fields set,
\* the version incremented.
updated_revision(revision, update_data) ==
    [revision EXCEPT
        !.reason = IF update_data.reason # None
                   THEN update_data.reason ELSE @,
        !.after = [f \in Fields |->
                     IF /\ f \in AppliedFields
                        /\ update_data.has_modifications
                        /\ update_data.modifications[f] # None
                     THEN update_data.modifications[f]
                     ELSE @[f]],
        !.version = @ + 1]

edit_history_record(revision_id, user_id, changes, version_before, version_after) ==
    [revision_id |-> revision_id,
     editor_id |-> user_id,
     editor_role |-> role_of(user_id),
     changes |-> changes,
     version_before |-> version_before,
     version_after |-> version_after]

\* The UPDATE the flush issues sets the columns whose value the call
\* changed on the row it had loaded; the other columns keep what the store
\* holds.
flushed_row(current, loaded, changed) ==
    [current EXCEPT
        !.reason = IF changed.reason # loaded.reason
                   THEN changed.reason ELSE @,
        !.after = [f \in Fields |->
                     IF changed.after[f] # loaded.after[f]
                     THEN changed.after[f] ELSE @[f]],
        !.version = IF changed.version # loaded.version
                    THEN changed.version ELSE @]

\* The writes of update_revision, for a revision it loaded as `loaded`:
\* the row, and an edit-history record when the request changed something.
update_writes(d, revision_id, loaded, update_data, user_id) ==
    LET changes == update_changes(loaded, update_data)
        d1 == SetRev(d, revision_id,
                     flushed_row(Rev(d, revision_id), loaded,
                                 updated_revision(loaded, update_data)))
    IN IF changes # {}
       THEN [d1 EXCEPT !.edit_histories =
                Append(@, edit_history_record(revision_id, user_id, changes,
                           loaded.version, loaded.version + 1))]
       ELSE d1

update_precheck(d, revision_id, user_id) ==
    IF ~Exists(d, revision_id) THEN "NotFoundError"
    ELSE IF ~can_edit_revision_of_service(Rev(d, revision_id), user_id,
                                          role_of(user_id))
         THEN "AuthorizationError"
    ELSE "ok"

\* fault: "write" is an exception from the flush, the history insert or the
\* commit; "response" one from building the response after the commit.
update_revision_of(users, requests, faults) ==
    \E revision_id \in RevIds, user_id \in users, update_data \in requests,
       fault \in faults :
        LET verdict == update_precheck(session, revision_id, user_id)
        IN IF verdict # "ok"
           THEN /\ fault = "none"
                /\ last' = Call("update_revision", revision_id, user_id,
                                update_data, verdict)
                /\ UNCHANGED <<session, store, next_id, calls, edits, rounds>>
           ELSE /\ Rev(session, revision_id).version < MaxVersion
                /\ IF fault = "write"
                   THEN /\ session' = store
                        /\ UNCHANGED store
                   ELSE /\ session' = update_writes(session, revision_id,
                                           Rev(session, revision_id),
                                           update_data, user_id)
                        /\ store' = session'
                /\ edits' = IF fault = "none"
                            THEN [edits EXCEPT ![revision_id] = @ + 1]
                            ELSE edits
                /\ last' = Call("update_revision", revision_id, user_id,
                                update_data,
                                IF fault = "none" THEN "ok"
                                ELSE "InvalidStateError")
                /\ UNCHANGED <<next_id, calls, rounds>>

UpdateFaults == {"none", "write", "response"}

update_revision == update_revision_of(Users, UpdateData, UpdateFaults)

\* A submission that does not ask who submits.
submit_precheck_for_anyone(d, revision_id, user_id) ==
    IF ~Exists(d, revision_id) THEN "NotFoundError"
    ELSE IF Rev(d, revision_id).status # DRAFT THEN "InvalidStateError"
    ELSE "ok"

submit_precheck(d, revision_id, user_id) ==
    IF ~Exists(d, revision_id) THEN "NotFoundError"
    ELSE IF Rev(d, revision_id).status # DRAFT THEN "InvalidStateError"
    ELSE IF Rev(d, revision_id).proposer_id # user_id
            /\ role_of(user_id) # ADMIN
         THEN "AuthorizationError"
    ELSE "ok"

\* fault: "write" is an exception from the flush or the commit; "notify"
\* one from the notifier, which is caught; "response" one from building
\* the response after the commit.
SubmitFaults == {"none", "write", "notify", "response"}

\* A submission that lets the failure of the notifier reach the caller.
submit_outcome_propagating(fault) ==
    IF fault = "none" THEN "ok" ELSE "InvalidStateError"

\* How a submission that passed its checks ends.
submit_outcome(fault) ==
    IF fault \in {"none", "notify"} THEN "ok" ELSE "InvalidStateError"

submit_for_review_of(faults) ==
    \E revision_id \in RevIds, user_id \in Users, fault \in faults :
        LET verdict == submit_precheck(session, revision_id, user_id)
        IN IF verdict # "ok"
           THEN /\ fault = "none"
                /\ last' = Call("submit_for_review", revision_id, user_id,
                                None, verdict)
                /\ UNCHANGED <<session, store, next_id, calls, edits, rounds>>
           ELSE /\ IF fault = "write"
                   THEN /\ session' = store
                        /\ UNCHANGED store
                   ELSE /\ session' = SetRev(session, revision_id,
                               [Rev(session, revision_id)
                                   EXCEPT !.status = UNDER_REVIEW])
                        /\ store' = session'
                /\ last' = Call("submit_for_review", revision_id, user_id,
                                fault, submit_outcome(fault))
                /\ UNCHANGED <<next_id, calls, edits, rounds>>

submit_for_review == submit_for_review_of(SubmitFaults)

delete_precheck(d, revision_id, user_id) ==
    IF ~Exists(d, revision_id) THEN "NotFoundError"
    ELSE IF Rev(d, revision_id).status # DRAFT THEN "InvalidStateError"
    ELSE IF Rev(d, revision_id).proposer_id # user_id
            /\ role_of(user_id) # ADMIN
         THEN "AuthorizationError"
    ELSE "ok"

HasEditHistory(d, revision_id) ==
    \E i \in 1..Len(d.edit_histories) :
        d.edit_histories[i].revision_id = revision_id

\* A delete that takes the edit-history rows of the revision with it.
delete_revision_cascading ==
    \E revision_id \in RevIds, user_id \in Users :
        LET verdict == delete_precheck(session, revision_id, user_id)
            kept(h) == h.revision_id # revision_id
        IN /\ session' =
                IF verdict = "ok"
                THEN [SetRev(session, revision_id, NoRev) EXCEPT
                         !.edit_histories = SelectSeq(@, kept)]
                ELSE session
           /\ store' = IF verdict = "ok" THEN session' ELSE store
           /\ last' = Call("delete_revision", revision_id, user_id,
                           None, verdict)
           /\ UNCHANGED <<next_id, calls, edits, rounds>>

\* The DELETE statement removes the revision row only.  Where edit-history
\* rows refer to it, a database that enforces the foreign key refuses the
\* statement (fk_enforced), one that does not leaves the rows behind.
delete_revision ==
    \E revision_id \in RevIds, user_id \in Users, fk_enforced \in BOOLEAN :
        LET verdict == delete_precheck(session, revision_id, user_id)
        IN IF verdict # "ok"
           THEN /\ ~fk_enforced
                /\ last' = Call("delete_revision", revision_id, user_id,
                                None, verdict)
                /\ UNCHANGED <<session, store, next_id, calls, edits, rounds>>
           ELSE IF fk_enforced /\ HasEditHistory(session, revision_id)
           THEN /\ last' = Call("delete_revision", revision_id, user_id,
                                None, "IntegrityError")
                /\ UNCHANGED <<session, store, next_id, calls, edits, rounds>>
           ELSE /\ ~fk_enforced
                /\ session' = SetRev(session, revision_id, NoRev)
                /\ store' = session'
                /\ last' = Call("delete_revision", revision_id, user_id,
                                None, "ok")
                /\ UNCHANGED <<next_id, calls, edits, rounds>>

(* --------------------------- ApprovalService --------------------------- *)

\* The store's lookup of a revision by id, as ApprovalService uses it.
get_by_id(d, revision_id) ==
    IF Exists(d, revision_id) THEN Rev(d, revision_id) ELSE NoRev

ApproverRoles == {APPROVER, SUPERVISOR, ADMIN}

\* BaseRepository.create takes the fields of the row as keywords.  Called
\* with an entity as its one positional argument it raises TypeError and
\* adds nothing.
create_with_entity(histories, entity) == histories

\* The ApprovalHistory row of an action; the action must be a member of
\* ApprovalAction for the row to be built at all.
approval_history_record(revision_id, actor_id, action, comment) ==
    [revision_id |-> revision_id, actor_id |-> actor_id,
     action |-> action, comment |-> comment]

\* An approval that does not look at the role of the approver.
approve_precheck_for_any_role(d, revision_id, approver_role) ==
    IF get_by_id(d, revision_id) = NoRev THEN "NotFoundError"
    ELSE IF Rev(d, revision_id).status
              \notin {UNDER_REVIEW, REVISION_REQUESTED}
         THEN "InvalidStateError"
    ELSE "ok"

approve_precheck(d, revision_id, approver_role) ==
    IF get_by_id(d, revision_id) = NoRev THEN "NotFoundError"
    ELSE IF Rev(d, revision_id).status
              \notin {UNDER_REVIEW, REVISION_REQUESTED}
         THEN "InvalidStateError"
    ELSE IF approver_role \notin ApproverRoles THEN "AuthorizationError"
    ELSE "ok"

\* The service sets the fields on the loaded revision, then the write of
\* the audit record raises; the service neither commits nor rolls back.
approve_revision ==
    \E revision_id \in RevIds, approver_id \in Users, comment \in {None, "c"} :
        LET verdict == approve_precheck(session, revision_id,
                                        role_of(approver_id))
        IN /\ session' =
                IF verdict = "ok"
                THEN [SetRev(session, revision_id,
                         [Rev(session, revision_id) EXCEPT
                             !.status = APPROVED,
                             !.approver_id = approver_id,
                             !.approved_at = TRUE,
                             !.approval_comment = comment])
                      EXCEPT !.approval_histories = create_with_entity(@,
                          approval_history_record(revision_id, approver_id,
                                                  "approved", comment))]
                ELSE session
           /\ last' = Call("approve_revision", revision_id, approver_id,
                           comment,
                           IF verdict = "ok" THEN "TypeError" ELSE verdict)
           /\ UNCHANGED <<store, next_id, calls, edits, rounds>>

\* "" stands for an empty or blank comment.
reject_precheck(d, revision_id, rejector_role, comment) ==
    IF comment \in {None, ""} THEN "ValueError"
    ELSE IF get_by_id(d, revision_id) = NoRev THEN "NotFoundError"
    ELSE IF Rev(d, revision_id).status
              \notin {UNDER_REVIEW, REVISION_REQUESTED}
         THEN "InvalidStateError"
    ELSE IF rejector_role \notin ApproverRoles THEN "AuthorizationError"
    ELSE "ok"

\* The revision as reject_revision sets it once the checks have passed.
rejected(revision, rejector_id, comment) ==
    [revision EXCEPT !.status = REJECTED,
                     !.approver_id = rejector_id,
                     !.approved_at = TRUE,
                     !.approval_comment = comment]

reject_revision ==
    \E revision_id \in RevIds, rejector_id \in Users,
       comment \in {None, "", "c"} :
        LET verdict == reject_precheck(session, revision_id,
                                       role_of(rejector_id), comment)
        IN /\ session' =
                IF verdict = "ok"
                THEN [SetRev(session, revision_id,
                             rejected(Rev(session, revision_id), rejector_id,
                                      comment))
                      EXCEPT !.approval_histories = create_with_entity(@,
                          approval_history_record(revision_id, rejector_id,
                                                  "rejected", comment))]
                ELSE session
           /\ last' = Call("reject_revision", revision_id, rejector_id,
                           comment,
                           IF verdict = "ok" THEN "TypeError" ELSE verdict)
           /\ UNCHANGED <<store, next_id, calls, edits, rounds>>

\* A withdrawal that does not look at the status of the revision.
withdraw_precheck_in_any_status(d, revision_id, withdrawer_id, withdrawer_role) ==
    IF get_by_id(d, revision_id) = NoRev THEN "NotFoundError"
    ELSE IF withdrawer_role # ADMIN
            /\ Rev(d, revision_id).proposer_id # withdrawer_id
         THEN "AuthorizationError"
    ELSE "ok"

withdraw_precheck(d, revision_id, withdrawer_id, withdrawer_role) ==
    IF get_by_id(d, revision_id) = NoRev THEN "NotFoundError"
    ELSE IF Rev(d, revision_id).status \notin ActiveStatuses
         THEN "InvalidStateError"
    ELSE IF withdrawer_role # ADMIN
            /\ Rev(d, revision_id).proposer_id # withdrawer_id
         THEN "AuthorizationError"
    ELSE "ok"

\* The status is set, then ApprovalAction.WITHDRAWN, which the enum does
\* not have, raises AttributeError before a record is built.
withdraw_revision ==
    \E revision_id \in RevIds, withdrawer_id \in Users :
        LET verdict == withdraw_precheck(session, revision_id, withdrawer_id,
                                         role_of(withdrawer_id))
        IN /\ session' =
                IF verdict = "ok"
                THEN SetRev(session, revision_id,
                         [Rev(session, revision_id) EXCEPT
                             !.status = WITHDRAWN])
                ELSE session
           /\ last' = Call("withdraw_revision", revision_id, withdrawer_id,
                           None,
                           IF verdict # "ok" THEN verdict
                           ELSE IF "withdrawn" \in ApprovalAction
                                THEN "TypeError" ELSE "AttributeError")
           /\ UNCHANGED <<store, next_id, calls, edits, rounds>>

\* A request for modification that is accepted in every active status.
request_modification_precheck_when_active(d, revision_id, requester_role) ==
    IF get_by_id(d, revision_id) = NoRev THEN "NotFoundError"
    ELSE IF Rev(d, revision_id).status \notin ActiveStatuses
         THEN "InvalidStateError"
    ELSE IF requester_role \notin ApproverRoles THEN "AuthorizationError"
    ELSE "ok"

request_modification_precheck(d, revision_id, requester_role) ==
    IF get_by_id(d, revision_id) = NoRev THEN "NotFoundError"
    ELSE IF Rev(d, revision_id).status # UNDER_REVIEW
         THEN "InvalidStateError"
    ELSE IF requester_role \notin ApproverRoles THEN "AuthorizationError"
    ELSE "ok"

request_modification ==
    \E revision_id \in RevIds, requester_id \in Users :
        LET verdict == request_modification_precheck(session, revision_id,
                                                     role_of(requester_id))
        IN /\ verdict = "ok" => CycleBound(revision_id, REVISION_REQUESTED)
           /\ session' =
                IF verdict = "ok"
                THEN [SetRev(session, revision_id,
                         [Rev(session, revision_id) EXCEPT
                             !.status = REVISION_REQUESTED])
                      EXCEPT !.approval_histories = create_with_entity(@,
                          approval_history_record(revision_id, requester_id,
                                                  "revision_requested", "i"))]
                ELSE session
           /\ rounds' = Round(revision_id, REVISION_REQUESTED, verdict = "ok")
           /\ last' = Call("request_modification", revision_id, requester_id,
                           None,
                           IF verdict = "ok" THEN "TypeError" ELSE verdict)
           /\ UNCHANGED <<store, next_id, calls, edits>>

\* Who may read the approval history of a revision.
can_view_history(revision, user_id, user_role) ==
    \/ user_role = ADMIN
    \/ user_role \in {APPROVER, SUPERVISOR}
    \/ revision.proposer_id = user_id

approval_history_precheck(d, revision_id, user_id, user_role) ==
    IF get_by_id(d, revision_id) = NoRev THEN "NotFoundError"
    ELSE IF ~can_view_history(Rev(d, revision_id), user_id, user_role)
         THEN "AuthorizationError"
    ELSE "ok"

\* A read: the records of the revision are returned, nothing is written.
get_approval_history ==
    \E revision_id \in RevIds, user_id \in Users :
        /\ last' = Call("get_approval_history", revision_id, user_id, None,
                        approval_history_precheck(session, revision_id,
                                                  user_id, role_of(user_id)))
        /\ UNCHANGED <<session, store, next_id, calls, edits, rounds>>

(* ---------------------- RevisionPermissionService ---------------------- *)

\* The permission matrix: each rule answers whether the user may act on
\* the revision.
can_edit_revision(user_id, user_role, revision) ==
    IF user_role = ADMIN THEN TRUE
    ELSE IF revision.status = DRAFT THEN user_id = revision.proposer_id
    ELSE IF revision.status = UNDER_REVIEW
         THEN user_role \in {APPROVER, SUPERVISOR}
    ELSE IF revision.status = REVISION_REQUESTED
         THEN \/ user_id = revision.proposer_id
              \/ user_role \in {APPROVER, SUPERVISOR}
    ELSE FALSE

can_delete_revision(user_id, user_role, revision) ==
    IF user_role = ADMIN THEN TRUE
    ELSE IF revision.status # DRAFT THEN FALSE
    ELSE user_id = revision.proposer_id

can_request_modification(user_role, revision) ==
    IF user_role \notin {ADMIN, APPROVER, SUPERVISOR} THEN FALSE
    ELSE revision.status = UNDER_REVIEW

\* A view rule that hides the revisions of others from every reviewer.
can_view_own_or_approved(user_id, user_role, revision) ==
    \/ user_role = ADMIN
    \/ user_id = revision.proposer_id
    \/ revision.status = APPROVED

can_view_revision(user_id, user_role, revision) ==
    IF user_role = ADMIN THEN TRUE
    ELSE IF user_id = revision.proposer_id THEN TRUE
    ELSE IF user_role \in {APPROVER, SUPERVISOR}
            /\ revision.status \in {UNDER_REVIEW, REVISION_REQUESTED,
                                    APPROVED, REJECTED}
         THEN TRUE
    ELSE revision.status = APPROVED

can_approve_revision(user_id, user_role, revision) ==
    IF user_role \notin {ADMIN, APPROVER, SUPERVISOR} THEN FALSE
    ELSE revision.status \in {UNDER_REVIEW, REVISION_REQUESTED}

can_reject_revision(user_id, user_role, revision) ==
    IF user_role \notin {ADMIN, APPROVER, SUPERVISOR} THEN FALSE
    ELSE revision.status \in {UNDER_REVIEW, REVISION_REQUESTED}

can_submit_revision(user_id, user_role, revision) ==
    IF user_role = ADMIN \/ user_id = revision.proposer_id
    THEN revision.status \in {DRAFT, REVISION_REQUESTED}
    ELSE FALSE

can_withdraw_revision(user_id, user_role, revision) ==
    IF user_role = ADMIN \/ user_id = revision.proposer_id
    THEN revision.status = DRAFT
    ELSE FALSE

\* actions.append(name), made when the rule allows.
append_if(actions, allowed, name) ==
    IF allowed THEN Append(actions, name) ELSE actions

\* A list of actions that leaves the request for modification out.
get_available_actions_short(user_id, user_role, revision) ==
    LET a1 == append_if(<<>>,
                  can_view_revision(user_id, user_role, revision), "view")
        a2 == append_if(a1,
                  can_edit_revision(user_id, user_role, revision), "edit")
        a3 == append_if(a2,
                  can_delete_revision(user_id, user_role, revision), "delete")
        a4 == append_if(a3,
                  can_submit_revision(user_id, user_role, revision), "submit")
        a5 == append_if(a4,
                  can_withdraw_revision(user_id, user_role, revision),
                  "withdraw")
        a6 == append_if(a5,
                  can_approve_revision(user_id, user_role, revision),
                  "approve")
    IN append_if(a6,
           can_reject_revision(user_id, user_role, revision), "reject")

get_available_actions(user_id, user_role, revision) ==
    LET a1 == append_if(<<>>,
                  can_view_revision(user_id, user_role, revision), "view")
        a2 == append_if(a1,
                  can_edit_revision(user_id, user_role, revision), "edit")
        a3 == append_if(a2,
                  can_delete_revision(user_id, user_role, revision), "delete")
        a4 == append_if(a3,
                  can_submit_revision(user_id, user_role, revision), "submit")
        a5 == append_if(a4,
                  can_withdraw_revision(user_id, user_role, revision),
                  "withdraw")
        a6 == append_if(a5,
                  can_approve_revision(user_id, user_role, revision),
                  "approve")
        a7 == append_if(a6,
                  can_reject_revision(user_id, user_role, revision), "reject")
    IN append_if(a7,
           can_request_modification(user_role, revision),
           "request_modification")

(* ------------------------------ endpoints ------------------------------ *)

\* A request runs on a session of its own, which get_db commits when the
\* handler returns and rolls back when it raises.  Requests are taken one
\* after another: a request starts when no unit of work is open.
NoOpenWork == session = store

instruction_record(revision_id, instructor_id) ==
    [revision_id |-> revision_id, instructor_id |-> instructor_id,
     instruction_text |-> "i", resolved |-> FALSE]

\* POST /{revision_id}/request-modification
endpoint_request_modification ==
    \E revision_id \in RevIds, user_id \in Users :
        LET verdict == can_transition_to_status(session, revision_id,
                           REVISION_REQUESTED, user_id, role_of(user_id))
            moved == transition_result(session, revision_id,
                                       REVISION_REQUESTED, user_id, None)
        IN /\ NoOpenWork
           /\ verdict = "ok" => CycleBound(revision_id, REVISION_REQUESTED)
           /\ session' =
                IF verdict = "ok"
                THEN [moved EXCEPT !.instructions =
                         Append(@, instruction_record(revision_id, user_id))]
                ELSE session
           /\ store' = session'
           /\ rounds' = Round(revision_id, REVISION_REQUESTED, verdict = "ok")
           /\ last' = Call("endpoint_request_modification", revision_id,
                           user_id, None, transition_error(verdict))
           /\ UNCHANGED <<next_id, calls, edits>>

\* POST /{revision_id}/resubmit
endpoint_resubmit ==
    \E revision_id \in RevIds, user_id \in Users :
        LET verdict == can_transition_to_status(session, revision_id,
                           UNDER_REVIEW, user_id, role_of(user_id))
        IN /\ NoOpenWork
           /\ session' = transition_result(session, revision_id,
                                           UNDER_REVIEW, user_id, None)
           /\ store' = session'
           /\ last' = Call("endpoint_resubmit", revision_id, user_id, None,
                           transition_error(verdict))
           /\ UNCHANGED <<next_id, calls, edits, rounds>>

\* POST /{revision_id}/approve, /reject and /withdraw build the service
\* as ApprovalService(db, notification_service); its constructor takes the
\* session only, so the handler raises TypeError before it calls the
\* service, and get_db rolls back.
endpoint_approval ==
    \E op \in {"endpoint_approve", "endpoint_reject", "endpoint_withdraw"},
       revision_id \in RevIds, user_id \in Users :
        /\ NoOpenWork
        /\ last' = Call(op, revision_id, user_id, None, "TypeError")
        /\ UNCHANGED <<session, store, next_id, calls, edits, rounds>>

\* GET /{revision_id}/available-actions: the revision is read and the
\* permission matrix is asked for the actions of the current user.
endpoint_available_actions ==
    \E revision_id \in RevIds, user_id \in Users :
        /\ NoOpenWork
        /\ last' =
             IF ~Exists(session, revision_id)
             THEN Call("endpoint_available_actions", revision_id, user_id,
                       None, "NotFoundError")
             ELSE Call("endpoint_available_actions", revision_id, user_id,
                       get_available_actions(user_id, role_of(user_id),
                                             Rev(session, revision_id)),
                       "ok")
        /\ UNCHANGED <<session, store, next_id, calls, edits, rounds>>

(* ------------------------------ sessions ------------------------------- *)

\* get_db: the unit of work ends with a commit ...
session_commit ==
    /\ session # store
    /\ store' = session
    /\ last' = Call("commit", 0, None, None, "ok")
    /\ UNCHANGED <<session, next_id, calls, edits, rounds>>

\* ... or, after an exception, with a rollback.
session_rollback ==
    /\ session # store
    /\ last.outcome # "ok"
    /\ session' = store
    /\ last' = Call("rollback", 0, None, None, "ok")
    /\ UNCHANGED <<store, next_id, calls, edits, rounds>>

(* ------------------------- concurrent requests ------------------------- *)

\* Requests whose handlers overlap.  Each runs on a session of its own,
\* reads what is committed when it reads, and commits when it writes.

Procs == 1..MaxCalls
Idle == [pc |-> "idle"]

\* create_revision up to its existence check
begin_create_of(articles, users, mods) ==
    \E p \in Procs, article_id \in articles, user_id \in users,
       modifications \in mods :
        LET verdict == create_precheck(store, article_id)
        IN /\ NoOpenWork
           /\ calls[p].pc = "idle"
           /\ IF verdict # "ok"
              THEN /\ last' = Call("create_revision", 0, user_id,
                                   article_id, verdict)
                   /\ UNCHANGED calls
              ELSE /\ calls' = [calls EXCEPT ![p] =
                                   [pc |-> "insert",
                                    article_id |-> article_id,
                                    user_id |-> user_id,
                                    modifications |-> modifications]]
                   /\ last' = Call("begin_create", 0, user_id, article_id,
                                   "ok")
           /\ UNCHANGED <<session, store, next_id, edits, rounds>>

\* create_revision from its insert to its commit
finish_create ==
    \E p \in Procs :
        LET id == next_id + 1
        IN /\ NoOpenWork
           /\ calls[p].pc = "insert"
           /\ id \in RevIds
           /\ store' = create_insert(store, id, calls[p].article_id,
                                     calls[p].user_id, calls[p].modifications)
           /\ session' = store'
           /\ next_id' = id
           /\ calls' = [calls EXCEPT ![p] = Idle]
           /\ last' = Call("create_revision", id, calls[p].user_id,
                           calls[p].article_id, "ok")
           /\ UNCHANGED <<edits, rounds>>

\* update_revision up to the point where it has loaded the revision and
\* checked the permission
begin_update_of(users, requests) ==
    \E p \in Procs, revision_id \in RevIds, user_id \in users,
       update_data \in requests :
        LET verdict == update_precheck(store, revision_id, user_id)
        IN /\ NoOpenWork
           /\ calls[p].pc = "idle"
           /\ IF verdict # "ok"
              THEN /\ last' = Call("update_revision", revision_id, user_id,
                                   update_data, verdict)
                   /\ UNCHANGED calls
              ELSE /\ Rev(store, revision_id).version < MaxVersion
                   /\ calls' = [calls EXCEPT ![p] =
                                   [pc |-> "write",
                                    revision_id |-> revision_id,
                                    user_id |-> user_id,
                                    update_data |-> update_data,
                                    loaded |-> Rev(store, revision_id)]]
                   /\ last' = Call("begin_update", revision_id, user_id,
                                   update_data, "ok")
           /\ UNCHANGED <<session, store, next_id, edits, rounds>>

\* update_revision from its flush to its return
finish_update ==
    \E p \in Procs :
        /\ NoOpenWork
        /\ calls[p].pc = "write"
        /\ Exists(store, calls[p].revision_id)
        /\ store' = update_writes(store, calls[p].revision_id,
                                  calls[p].loaded, calls[p].update_data,
                                  calls[p].user_id)
        /\ session' = store'
        /\ edits' = [edits EXCEPT ![calls[p].revision_id] = @ + 1]
        /\ calls' = [calls EXCEPT ![p] = Idle]
        /\ last' = Call("update_revision", calls[p].revision_id,
                        calls[p].user_id, calls[p].update_data, "ok")
        /\ UNCHANGED <<next_id, rounds>>

\* approve_revision or reject_revision up to the point where it has loaded
\* the revision and passed its checks
begin_review ==
    \E p \in Procs, revision_id \in RevIds, user_id \in {"sv", "app"},
       op \in {"approve_revision", "reject_revision"}, comment \in {None, "c"} :
        LET verdict == IF op = "approve_revision"
                       THEN approve_precheck(store, revision_id,
                                             role_of(user_id))
                       ELSE reject_precheck(store, revision_id,
                                            role_of(user_id), comment)
        IN /\ NoOpenWork
           /\ calls[p].pc = "idle"
           /\ IF verdict # "ok"
              THEN /\ last' = Call(op, revision_id, user_id, comment, verdict)
                   /\ UNCHANGED calls
              ELSE /\ calls' = [calls EXCEPT ![p] =
                                   [pc |-> "decide",
                                    op |-> op,
                                    revision_id |-> revision_id,
                                    user_id |-> user_id,
                                    comment |-> comment]]
                   /\ last' = Call("begin_review", revision_id, user_id,
                                   comment, "ok")
           /\ UNCHANGED <<session, store, next_id, edits, rounds>>

\* approve_revision or reject_revision from the assignment of the fields
\* to its end: the write of the audit record raises TypeError before any
\* commit, and the session of the request is discarded with what it set.
finish_review ==
    \E p \in Procs :
        /\ NoOpenWork
        /\ calls[p].pc = "decide"
        /\ calls' = [calls EXCEPT ![p] = Idle]
        /\ last' = Call(calls[p].op, calls[p].revision_id, calls[p].user_id,
                        calls[p].comment, "TypeError")
        /\ UNCHANGED <<session, store, next_id, edits, rounds>>

(* ---------------------------- specification ---------------------------- *)

Init ==
    /\ session = EmptyData
    /\ store = EmptyData
    /\ next_id = 0
    /\ last = Call("init", 0, None, None, "ok")
    /\ calls = [p \in Procs |-> Idle]
    /\ edits = [r \in RevIds |-> 0]
    /\ rounds = [r \in RevIds |-> 0]

begin_create == begin_create_of(ArticleIds, Proposers, CreateModifications)
begin_update == begin_update_of(Users, UpdateData)

Next ==
    \/ transition_status
    \/ create_revision
    \/ update_revision
    \/ submit_for_review
    \/ delete_revision
    \/ approve_revision
    \/ reject_revision
    \/ withdraw_revision
    \/ request_modification
    \/ endpoint_request_modification
    \/ endpoint_resubmit
    \/ endpoint_approval
    \/ get_approval_history
    \/ endpoint_available_actions
    \/ session_commit
    \/ session_rollback
    \/ begin_create
    \/ finish_create
    \/ begin_update
    \/ finish_update

Spec == Init /\ [][Next]_vars

\* The workflow of a revision: every operation that reads or moves the
\* status, on revisions opened with one fixed proposal.
TitleOnly == [f \in Fields |-> IF f = "title" THEN "a" ELSE None]

create_draft ==
    create_revision_of({"A1"}, Proposers, {TitleOnly}, MaxWorkflowRevisions)

NextWorkflow ==
    \/ create_draft
    \/ transition_status
    \/ submit_for_review
    \/ delete_revision
    \/ approve_revision
    \/ reject_revision
    \/ withdraw_revision
    \/ request_modification
    \/ endpoint_request_modification
    \/ endpoint_resubmit
    \/ endpoint_approval
    \/ session_commit
    \/ session_rollback

SpecWorkflow == Init /\ [][NextWorkflow]_vars

\* The creation of revisions, one request after another and overlapping,
\* with the moves that end a revision's activity.
create_for_article ==
    create_revision_of(ArticleIds, Proposers, {TitleOnly}, MaxRevisions)

begin_create_for_article ==
    begin_create_of(ArticleIds, Proposers, {TitleOnly})

\* A withdrawal of a Draft through the workflow engine.
withdraw_by_transition == transition_status_of(Proposers, {WITHDRAWN})

NextCreate ==
    \/ create_for_article
    \/ begin_create_for_article
    \/ finish_create
    \/ submit_for_review
    \/ delete_revision
    \/ withdraw_by_transition
    \/ session_commit

SpecCreate == Init /\ [][NextCreate]_vars

\* Content edits of one revision by requests that come one after another
\* and end as they should or fail in their writes.
EditUsers == {"gen1", "gen2", "sv"}

edit_revision ==
    update_revision_of(EditUsers, UpdateData, {"none", "write"})

NextEdit ==
    \/ create_draft
    \/ edit_revision
    \/ submit_for_review

SpecEdit == Init /\ [][NextEdit]_vars

\* Content edits of one revision by requests that overlap.
Editors == {"gen1", "adm"}

\* Requests that set the title.
TitleEdits ==
    {u \in UpdateData :
        /\ u.reason = None
        /\ u.has_modifications
        /\ u.modifications["title"] # None
        /\ u.modifications["importance"] = None}

begin_edit == begin_update_of(Editors, TitleEdits)

NextConcurrentEdit ==
    \/ create_draft
    \/ begin_edit
    \/ finish_update

SpecConcurrentEdit == Init /\ [][NextConcurrentEdit]_vars

\* Content edits in the course of the workflow: the title set anew by the
\* proposer or by an administrator, between the operations that move the
\* status.
Retitled == {u \in TitleEdits : u.modifications["title"] = "b"}

edit_title == update_revision_of(Editors, Retitled, {"none"})

move_status == transition_status_of({"gen1", "app", "adm"}, RevisionStatus)

NextEditWorkflow ==
    \/ create_draft
    \/ edit_title
    \/ move_status
    \/ submit_for_review
    \/ approve_revision
    \/ reject_revision
    \/ withdraw_revision
    \/ request_modification
    \/ endpoint_request_modification
    \/ endpoint_resubmit
    \/ session_commit
    \/ session_rollback

SpecEditWorkflow == Init /\ [][NextEditWorkflow]_vars

\* The permission matrix at work: revisions in every status, and the reads
\* that ask who may do what.
NextPermission ==
    \/ create_draft
    \/ transition_status
    \/ endpoint_available_actions
    \/ get_approval_history
    \/ session_commit
    \/ session_rollback

SpecPermission == Init /\ [][NextPermission]_vars

\* The life of the edit history: edits, the moves of the status, and the
\* delete of the revision.
NextEditHistory ==
    \/ create_draft
    \/ edit_revision
    \/ withdraw_by_transition
    \/ submit_for_review
    \/ delete_revision
    \/ session_commit
    \/ session_rollback

SpecEditHistory == Init /\ [][NextEditHistory]_vars

\* Decisions on one revision by requests that overlap.
NextConcurrentReview ==
    \/ create_draft
    \/ submit_for_review
    \/ begin_review
    \/ finish_review

SpecConcurrentReview == Init /\ [][NextConcurrentReview]_vars

(* ------------------------- workflow properties ------------------------- *)

\* The transition table of the workflow, as the specification states it.
TableEdges ==
    {<<DRAFT, UNDER_REVIEW>>, <<DRAFT, WITHDRAWN>>,
     <<UNDER_REVIEW, APPROVED>>, <<UNDER_REVIEW, REJECTED>>,
     <<UNDER_REVIEW, REVISION_REQUESTED>>,
     <<REVISION_REQUESTED, UNDER_REVIEW>>}

TerminalStatuses == {APPROVED, REJECTED, WITHDRAWN}

\* The status of revision r moves from one value to another in this step,
\* as the services see it.
StatusMoves(r) ==
    /\ Exists(session, r)
    /\ Exists(session', r)
    /\ Rev(session', r).status # Rev(session, r).status

\* This step discards uncommitted work: a rollback.
RolledBack == session # store /\ session' = store /\ store' = store

\* The calls that go through transition_status.
TransitionOps ==
    {"transition_status", "endpoint_request_modification",
     "endpoint_resubmit"}

\* C1: for every actor and every pair (from, to) outside the six edges,
\* transition_status refuses and changes nothing; every status change a
\* transition_status call makes is one of the six edges.
C1_TransitionClosure ==
    /\ [](\A r \in RevIds, to \in RevisionStatus, u \in Users :
            (Exists(session, r)
             /\ <<Rev(session, r).status, to>> \notin TableEdges)
            => /\ transition_error(can_transition_to_status(
                      session, r, to, u, role_of(u))) # "ok"
               /\ transition_result(session, r, to, u, None) = session)
    /\ [][last'.op \in TransitionOps
            => \A r \in RevIds :
                  StatusMoves(r)
                  => /\ <<Rev(session, r).status, Rev(session', r).status>>
                          \in TableEdges
                     /\ last'.outcome = "ok"
                     /\ last'.rid = r]_vars

\* A transition_status call on an Approved revision was refused.
C1_Witness ==
    /\ last.op = "transition_status"
    /\ last.outcome # "ok"
    /\ Exists(session, last.rid)
    /\ Rev(session, last.rid).status = APPROVED

\* C2: once the status of a revision is Approved, Rejected or Withdrawn, no
\* operation changes it again: not in the store, and not in the unit of
\* work except by discarding an uncommitted change.
C2_TerminalAbsorbing ==
    [][\A r \in RevIds :
         /\ (Exists(store, r) /\ Rev(store, r).status \in TerminalStatuses)
              => /\ Exists(store', r)
                 /\ Rev(store', r).status = Rev(store, r).status
         /\ (Exists(session, r)
             /\ Rev(session, r).status \in TerminalStatuses
             /\ ~RolledBack)
              => /\ Exists(session', r)
                 /\ Rev(session', r).status = Rev(session, r).status]_vars

\* An operation was tried on a revision whose committed status is terminal.
C2_Witness ==
    /\ last.op \in {"transition_status", "approve_revision",
                     "reject_revision", "withdraw_revision",
                     "request_modification", "submit_for_review",
                     "endpoint_resubmit"}
    /\ Exists(store, last.rid)
    /\ Rev(store, last.rid).status \in TerminalStatuses
    /\ session = store

ApprovalOps ==
    {"approve_revision", "reject_revision", "withdraw_revision",
     "request_modification"}

AuditCount(d, r, action) ==
    Cardinality({i \in 1..Len(d.approval_histories) :
                    /\ d.approval_histories[i].revision_id = r
                    /\ d.approval_histories[i].action = action})

AuditedStatus(action) ==
    CASE action = "approved" -> APPROVED
      [] action = "rejected" -> REJECTED
      [] action = "revision_requested" -> REVISION_REQUESTED
      [] action = "withdrawn" -> WITHDRAWN

\* The committed status of r becomes `status` in this step.
CommittedChangeTo(r, status) ==
    /\ Exists(store, r)
    /\ Exists(store', r)
    /\ Rev(store, r).status # status
    /\ Rev(store', r).status = status

PublicEntryPoints ==
    ApprovalOps \cup {"endpoint_request_modification", "endpoint_resubmit",
                      "endpoint_approve", "endpoint_reject",
                      "endpoint_withdraw"}

\* C5: through the public entry points, every change of a revision's
\* status to Approved, Rejected, RevisionRequested or Withdrawn comes with
\* exactly one new ApprovalHistory record of the matching action, and no
\* record is written otherwise: the counts stay equal.
C5_AuditCompleteness ==
    [][last'.op \in PublicEntryPoints
         => \A r \in RevIds :
              \A action \in {"approved", "rejected", "revision_requested",
                              "withdrawn"} :
                 AuditCount(store', r, action) =
                    AuditCount(store, r, action)
                    + (IF CommittedChangeTo(r, AuditedStatus(action))
                       THEN 1 ELSE 0)]_vars

MutatingOps ==
    ApprovalOps \cup TransitionOps
    \cup {"submit_for_review", "update_revision"}

\* C6: a workflow-mutating call that fails leaves nothing of itself in
\* the store.
C6_FailureAtomicity ==
    [][(last'.op \in MutatingOps /\ last'.outcome # "ok")
         => store' = store]_vars

(* ------------------------- creation properties ------------------------- *)

\* The revisions of an article that are in Draft, UnderReview or
\* RevisionRequested.
ActiveRevisions(d, article_id) ==
    {r \in RevIds :
        /\ Exists(d, r)
        /\ Rev(d, r).target_article_id = article_id
        /\ Rev(d, r).status \in {DRAFT, UNDER_REVIEW, REVISION_REQUESTED}}

\* C7: in every reachable state, whatever the interleaving of the
\* create_revision calls, an article has at most one revision in Draft,
\* UnderReview or RevisionRequested.
C7_SingleActiveRevision ==
    \A article_id \in Articles :
        Cardinality(ActiveRevisions(store, article_id)) <= 1

\* C8: create_revision for an article that has an active revision fails
\* with Conflict and creates nothing; for an existing article that has
\* none it passes the check, and a call that succeeds adds one Draft
\* revision.
C8_ConflictOnActiveRevision ==
    /\ [](\A article_id \in Articles :
            create_precheck(session, article_id) =
                IF ActiveRevisions(session, article_id) # {}
                THEN "ConflictError" ELSE "ok")
    /\ [][last'.op = "create_revision"
            => /\ last'.outcome = "ConflictError"
                    => UNCHANGED <<session, store, next_id>>
               /\ last'.outcome = "ok"
                    => /\ ~Exists(store, last'.rid)
                       /\ Exists(store', last'.rid)
                       /\ Rev(store', last'.rid).status = DRAFT
                       /\ \A r \in RevIds \ {last'.rid} :
                              Rev(session', r) = Rev(session, r)]_vars

\* A create_revision call was refused with Conflict while one article has
\* an active revision and a revision of the other article was created.
C8_Witness ==
    /\ last.op = "create_revision"
    /\ last.outcome = "ConflictError"
    /\ ActiveRevisions(store, "A1") # {}
    /\ \E r \in RevIds :
          Exists(store, r) /\ Rev(store, r).target_article_id = "A2"

(* --------------------------- edit properties --------------------------- *)

\* C9: of two update_revision calls that loaded the revision at the same
\* version, the one that writes second finds the version changed and
\* fails with Conflict, writing nothing.
C9_StaleEditsRejected ==
    [][\A p \in Procs :
          (/\ calls[p].pc = "write"
           /\ calls'[p].pc = "idle"
           /\ Exists(store, calls[p].revision_id)
           /\ Rev(store, calls[p].revision_id).version
                 # calls[p].loaded.version)
          => /\ last'.outcome = "ConflictError"
             /\ store' = store]_vars

\* The number of RevisionEditHistory records of revision r.
EditHistoryCount(d, r) ==
    Cardinality({i \in 1..Len(d.edit_histories) :
                    d.edit_histories[i].revision_id = r})

\* C10: after N update_revision calls on a revision have returned, its
\* version is 1 + N and it has N RevisionEditHistory records.
C10_VersionMonotonicity ==
    \A r \in RevIds :
        Exists(store, r)
        => /\ Rev(store, r).version = 1 + edits[r]
           /\ EditHistoryCount(store, r) = edits[r]

(* ----------------------- edits and the workflow ----------------------- *)

StatusOps ==
    {"submit_for_review", "endpoint_resubmit",
     "endpoint_request_modification", "transition_status",
     "approve_revision", "reject_revision", "request_modification",
     "withdraw_revision"}

\* C11: submit, resubmit, approve, reject, request-modification and
\* withdraw, through the services, the workflow engine and the endpoints,
\* leave the version of every revision as it was, in the unit of work and
\* in the store.
C11_StatusOpsKeepVersion ==
    [][last'.op \in StatusOps
         => \A r \in RevIds :
              /\ (Exists(session, r) /\ Exists(session', r))
                   => Rev(session', r).version = Rev(session, r).version
              /\ (Exists(store, r) /\ Exists(store', r))
                   => Rev(store', r).version = Rev(store, r).version]_vars

\* A revision that was edited has been moved on by a status operation.
C11_Witness ==
    /\ last.op \in StatusOps
    /\ last.outcome = "ok"
    /\ Exists(session, last.rid)
    /\ Rev(session, last.rid).version > 1
    /\ Rev(session, last.rid).status # DRAFT

\* The reason, the proposed content and the version of a revision.
Content(revision) ==
    [reason |-> revision.reason, after |-> revision.after,
     version |-> revision.version]

\* The content of revision r, terminal before the step, is not the same
\* after it.
TerminalContentChanges(r) ==
    /\ Exists(session, r)
    /\ Rev(session, r).status \in TerminalStatuses
    /\ \/ ~Exists(session', r)
       \/ Content(Rev(session', r)) # Content(Rev(session, r))

\* C12 as stated: once a revision is Approved, Rejected or Withdrawn no
\* operation by any actor, an Admin calling update_revision included,
\* changes its reason, its proposed content or its version.
C12_TerminalImmutable ==
    [][\A r \in RevIds : ~TerminalContentChanges(r)]_vars

\* C12 as amended: once a revision is terminal, update_revision refuses
\* every actor but an Admin, and nothing but an update_revision call - an
\* Admin's, then - changes its reason, its proposed content or its
\* version.
C12_TerminalImmutableButForAdmin ==
    /\ [](\A r \in RevIds, u \in Users :
            (Exists(session, r)
             /\ Rev(session, r).status \in TerminalStatuses)
            => update_precheck(session, r, u) =
                  IF role_of(u) = ADMIN THEN "ok" ELSE "AuthorizationError")
    /\ [][\A r \in RevIds :
            TerminalContentChanges(r)
            => last'.op = "update_revision" /\ last'.rid = r]_vars

\* An update_revision call went through on a terminal revision.
C12_Witness ==
    /\ last.op = "update_revision"
    /\ last.outcome = "ok"
    /\ Exists(session, last.rid)
    /\ Rev(session, last.rid).status \in TerminalStatuses
    /\ Rev(session, last.rid).version > 1

(* ----------------------------- scenarios ------------------------------ *)

\* The step is a call of the ApprovalService operation `op` on revision r,
\* in status `status`, that the service does not refuse for the role of
\* the actor.
Permitted(op, r, status) ==
    /\ last'.op = op
    /\ last'.rid = r
    /\ Exists(session, r)
    /\ Rev(session, r).status = status
    /\ last'.outcome # "AuthorizationError"

\* The ApprovalHistory records of revision r.
AuditRecords(d, r) ==
    {i \in 1..Len(d.approval_histories) :
        d.approval_histories[i].revision_id = r}

\* Revision r has exactly one ApprovalHistory record, it has the given
\* action, and its actor is one of `actors`.
OneAuditRecord(d, r, action, actors) ==
    /\ Cardinality(AuditRecords(d, r)) = 1
    /\ \A i \in AuditRecords(d, r) :
          /\ d.approval_histories[i].action = action
          /\ d.approval_histories[i].actor_id \in actors

\* C13: a successful submit leaves the revision UnderReview, and
\* approve_revision on an UnderReview revision by an Approver, Supervisor
\* or Admin returns successfully with status Approved, the approver and
\* the approval time set, and exactly one ApprovalHistory record of the
\* revision, with action approved and the approver as its actor.
C13_HappyPath ==
    [][\A r \in RevIds :
        /\ (last'.op = "submit_for_review" /\ last'.rid = r
             /\ last'.outcome = "ok")
            => Rev(session', r).status = UNDER_REVIEW
        /\ Permitted("approve_revision", r, UNDER_REVIEW)
            => /\ last'.outcome = "ok"
               /\ Rev(session', r).status = APPROVED
               /\ Rev(session', r).approver_id \in Users
               /\ role_of(Rev(session', r).approver_id) \in ApproverRoles
               /\ Rev(session', r).approved_at = TRUE
               /\ OneAuditRecord(session', r, "approved",
                                 {Rev(session', r).approver_id})]_vars

\* The RevisionInstruction records of revision r.
InstructionCount(d, r) ==
    Cardinality({i \in 1..Len(d.instructions) :
                    d.instructions[i].revision_id = r})

\* Revision r went to RevisionRequested through the endpoint, once, and
\* was resubmitted.
Resubmitted(r) ==
    /\ rounds[r] = 1
    /\ Exists(store, r)
    /\ InstructionCount(store, r) = 1
    /\ Rev(store, r).status = UNDER_REVIEW

\* C14: the request-modification endpoint takes an UnderReview revision
\* to RevisionRequested and creates exactly one RevisionInstruction, the
\* resubmit endpoint takes it back to UnderReview, and the approval that
\* follows, by an Approver, Supervisor or Admin, returns successfully with
\* status Approved.
C14_ModificationLoop ==
    [][\A r \in RevIds :
        /\ (last'.op = "endpoint_request_modification" /\ last'.rid = r
             /\ last'.outcome = "ok")
            => /\ Rev(store, r).status = UNDER_REVIEW
               /\ Rev(store', r).status = REVISION_REQUESTED
               /\ InstructionCount(store', r) = InstructionCount(store, r) + 1
        /\ (last'.op = "endpoint_resubmit" /\ last'.rid = r
             /\ last'.outcome = "ok")
            => Rev(store', r).status = UNDER_REVIEW
        /\ (Resubmitted(r) /\ Permitted("approve_revision", r, UNDER_REVIEW))
            => /\ last'.outcome = "ok"
               /\ Rev(session', r).status = APPROVED]_vars

(* ------------------------- approval operations ------------------------ *)

GeneralUsers == {u \in Users : role_of(u) = GENERAL}

C16_RejectionRequiresComment ==
    /\ [](\A r \in RevIds, u \in Users, comment \in {None, ""} :
            reject_precheck(session, r, role_of(u), comment) = "ValueError")
    /\ [][\A r \in RevIds :
            /\ (last'.op = "reject_revision" /\ last'.outcome = "ValueError")
                => session' = session /\ store' = store
            /\ (Permitted("reject_revision", r, UNDER_REVIEW)
                /\ last'.outcome # "ValueError")
                => /\ last'.outcome = "ok"
                   /\ Rev(session', r).status = REJECTED
                   /\ AuditCount(session', r, "rejected") = 1]_vars

\* C17: withdraw_revision by the proposer or an Admin on a Draft,
\* UnderReview or RevisionRequested revision returns successfully with
\* status Withdrawn and one more ApprovalHistory record with action
\* withdrawn.
C17_WithdrawCompletes ==
    [][\A r \in RevIds, status \in ActiveStatuses :
        Permitted("withdraw_revision", r, status)
        => /\ last'.outcome = "ok"
           /\ Rev(session', r).status = WITHDRAWN
           /\ AuditCount(session', r, "withdrawn")
                 = AuditCount(session, r, "withdrawn") + 1]_vars

Refusals == {"NotFoundError", "InvalidStateError", "AuthorizationError"}

C19_EditFollowsMatrix ==
    \A r \in RevIds, u \in Users :
        Exists(session, r)
        => LET allowed == can_edit_revision(u, role_of(u), Rev(session, r))
               verdict == update_precheck(session, r, u)
           IN /\ allowed => verdict = "ok"
              /\ ~allowed => verdict = "AuthorizationError"

\* C20: delete_revision accepts a call on an existing revision exactly
\* when the permission matrix lets the user delete it - an Admin always,
\* anyone else only the proposer of a Draft - and a refused call leaves
\* the revision in place.
C20_DeleteFollowsMatrix ==
    /\ [](\A r \in RevIds, u \in Users :
            Exists(session, r)
            => (delete_precheck(session, r, u) = "ok"
                <=> can_delete_revision(u, role_of(u), Rev(session, r))))
    /\ [][(last'.op = "delete_revision" /\ last'.outcome # "ok")
           => session' = session /\ store' = store]_vars

(* --------------------------- who may do what -------------------------- *)

\* User u may send revision `revision` to review: the proposer or an Admin,
\* from Draft or RevisionRequested.
MaySubmit(u, revision) ==
    /\ u = revision.proposer_id \/ role_of(u) = ADMIN
    /\ revision.status \in {DRAFT, REVISION_REQUESTED}

SubmitOps == {"submit_for_review", "endpoint_resubmit", "transition_status"}

\* C21: submit_for_review and transition_status to UnderReview (the
\* resubmit endpoint calls it) accept a call only from the proposer or an
\* Admin and only on a Draft or RevisionRequested revision; a call they
\* refuse changes nothing; and a status becomes UnderReview only in one of
\* these calls, from Draft or RevisionRequested.
C21_SubmitGuard ==
    /\ [](\A r \in RevIds, u \in Users :
            Exists(session, r)
            => /\ submit_precheck(session, r, u) = "ok"
                   => MaySubmit(u, Rev(session, r))
               /\ can_transition_to_status(session, r, UNDER_REVIEW, u,
                                           role_of(u)) = "ok"
                   => MaySubmit(u, Rev(session, r))
               /\ ~MaySubmit(u, Rev(session, r))
                   => transition_result(session, r, UNDER_REVIEW, u, None)
                         = session)
    /\ [][\A r \in RevIds :
            /\ (StatusMoves(r) /\ Rev(session', r).status = UNDER_REVIEW
                /\ ~RolledBack)
                => /\ last'.op \in SubmitOps
                   /\ last'.rid = r
                   /\ Rev(session, r).status \in {DRAFT, REVISION_REQUESTED}
            /\ (last'.op \in {"submit_for_review", "endpoint_resubmit"}
                /\ last'.outcome \in {"NotFoundError", "AuthorizationError"})
                => session' = session /\ store' = store
            /\ (last'.op = "submit_for_review" /\ last'.rid = r
                /\ Exists(session, r) /\ Rev(session, r).status # DRAFT)
                => session' = session /\ store' = store]_vars

\* A submission or resubmission of a revision that could be sent to review
\* was refused for the actor.
C21_Witness ==
    /\ last.op \in {"submit_for_review", "endpoint_resubmit"}
    /\ last.outcome = "AuthorizationError"
    /\ Exists(session, last.rid)
    /\ Rev(session, last.rid).status \in {DRAFT, REVISION_REQUESTED}

\* C22: can_withdraw_revision allows exactly the proposer or an Admin, on
\* a revision that is Draft, UnderReview or RevisionRequested.
C22_WithdrawRule ==
    \A r \in RevIds, u \in Users :
        Exists(session, r)
        => (can_withdraw_revision(u, role_of(u), Rev(session, r))
            <=> /\ u = Rev(session, r).proposer_id \/ role_of(u) = ADMIN
                /\ Rev(session, r).status \in ActiveStatuses)

\* The rule of the permission matrix for the action that moves a revision
\* to new_status.
MatrixRule(new_status, u, user_role, revision) ==
    CASE new_status = UNDER_REVIEW ->
             can_submit_revision(u, user_role, revision)
      [] new_status = WITHDRAWN ->
             can_withdraw_revision(u, user_role, revision)
      [] new_status = APPROVED ->
             can_approve_revision(u, user_role, revision)
      [] new_status = REJECTED ->
             can_reject_revision(u, user_role, revision)
      [] new_status = REVISION_REQUESTED ->
             can_request_modification(user_role, revision)
      [] OTHER -> FALSE

\* C23: on every edge of the transition table, for every role and for
\* the proposer and the others alike, the permission gate of the workflow
\* allows the transition exactly when the permission matrix allows the
\* action.
C23_GateFollowsMatrix ==
    \A r \in RevIds, u \in Users, to \in RevisionStatus :
        (Exists(session, r) /\ <<Rev(session, r).status, to>> \in TableEdges)
        => (check_transition_permission(Rev(session, r), to, u, role_of(u))
            <=> MatrixRule(to, u, role_of(u), Rev(session, r)))

\* transition_status let an approval through its gate.
C23_Witness ==
    /\ last.op = "transition_status"
    /\ last.outcome = "ok"
    /\ Exists(session, last.rid)
    /\ Rev(session, last.rid).status = APPROVED
    /\ role_of(Rev(session, last.rid).approver_id) = SUPERVISOR

\* The rules of the permission matrix answer alike for the two roles.
SameInMatrix(u, role1, role2, revision) ==
    /\ can_view_revision(u, role1, revision)
         = can_view_revision(u, role2, revision)
    /\ can_edit_revision(u, role1, revision)
         = can_edit_revision(u, role2, revision)
    /\ can_delete_revision(u, role1, revision)
         = can_delete_revision(u, role2, revision)
    /\ can_submit_revision(u, role1, revision)
         = can_submit_revision(u, role2, revision)
    /\ can_withdraw_revision(u, role1, revision)
         = can_withdraw_revision(u, role2, revision)
    /\ can_approve_revision(u, role1, revision)
         = can_approve_revision(u, role2, revision)
    /\ can_reject_revision(u, role1, revision)
         = can_reject_revision(u, role2, revision)
    /\ can_request_modification(role1, revision)
         = can_request_modification(role2, revision)

\* The role checks of ApprovalService and WorkflowService answer alike for
\* the two roles.
SameInServices(d, r, u, role1, role2) ==
    /\ approve_precheck(d, r, role1) = approve_precheck(d, r, role2)
    /\ reject_precheck(d, r, role1, "c") = reject_precheck(d, r, role2, "c")
    /\ request_modification_precheck(d, r, role1)
         = request_modification_precheck(d, r, role2)
    /\ approval_history_precheck(d, r, u, role1)
         = approval_history_precheck(d, r, u, role2)
    /\ \A to \in RevisionStatus :
          can_transition_to_status(d, r, to, u, role1)
            = can_transition_to_status(d, r, to, u, role2)

\* C24: a user with the supervisor flag gets, whatever the role, the
\* decision a Supervisor gets, from every rule of the permission matrix
\* and every role check of ApprovalService and WorkflowService.
C24_SupervisorFlag ==
    \A r \in RevIds, u \in Users :
        (Exists(session, r) /\ is_sv(u))
        => /\ SameInMatrix(u, role_of(u), SUPERVISOR, Rev(session, r))
           /\ SameInServices(session, r, u, role_of(u), SUPERVISOR)

ActionNames ==
    {"view", "edit", "delete", "submit", "withdraw", "approve", "reject",
     "request_modification"}

Allowed(action, u, user_role, revision) ==
    CASE action = "view" -> can_view_revision(u, user_role, revision)
      [] action = "edit" -> can_edit_revision(u, user_role, revision)
      [] action = "delete" -> can_delete_revision(u, user_role, revision)
      [] action = "submit" -> can_submit_revision(u, user_role, revision)
      [] action = "withdraw" -> can_withdraw_revision(u, user_role, revision)
      [] action = "approve" -> can_approve_revision(u, user_role, revision)
      [] action = "reject" -> can_reject_revision(u, user_role, revision)
      [] action = "request_modification" ->
             can_request_modification(user_role, revision)

\* C25: for every role, proposer or not, and every status, the list
\* get_available_actions returns holds exactly the actions whose rule
\* allows, each once.
C25_ActionsSymmetry ==
    \A r \in RevIds, u \in Users :
        Exists(session, r)
        => LET actions ==
                   get_available_actions(u, role_of(u), Rev(session, r))
               listed == {actions[i] : i \in 1..Len(actions)}
           IN /\ listed = {a \in ActionNames :
                              Allowed(a, u, role_of(u), Rev(session, r))}
              /\ Cardinality(listed) = Len(actions)

\* The actions on a revision under review were asked for.
C25_Witness ==
    /\ last.op = "endpoint_available_actions"
    /\ last.outcome = "ok"
    /\ Exists(session, last.rid)
    /\ Rev(session, last.rid).status = UNDER_REVIEW

\* C26: can_view_revision allows exactly an Admin, the proposer, an
\* Approver or Supervisor when the status is UnderReview,
\* RevisionRequested, Approved or Rejected, and anyone when it is
\* Approved; so an Approver or Supervisor who is not the proposer cannot
\* view a Draft or Withdrawn revision, and a General user who is not the
\* proposer views Approved revisions only.
C26_ViewRule ==
    \A r \in RevIds, u \in Users :
        Exists(session, r)
        => LET revision == Rev(session, r)
               allowed == can_view_revision(u, role_of(u), revision)
           IN /\ allowed
                  <=> \/ role_of(u) = ADMIN
                      \/ u = revision.proposer_id
                      \/ /\ role_of(u) \in {APPROVER, SUPERVISOR}
                         /\ revision.status \in
                               {UNDER_REVIEW, REVISION_REQUESTED,
                                APPROVED, REJECTED}
                      \/ revision.status = APPROVED
              /\ (role_of(u) \in {APPROVER, SUPERVISOR}
                  /\ u # revision.proposer_id
                  /\ revision.status \in {DRAFT, WITHDRAWN})
                  => ~allowed
              /\ (role_of(u) = GENERAL /\ u # revision.proposer_id)
                  => (allowed <=> revision.status = APPROVED)

\* The actions on a withdrawn revision were asked for.
C26_Witness ==
    /\ last.op = "endpoint_available_actions"
    /\ last.outcome = "ok"
    /\ Exists(session, last.rid)
    /\ Rev(session, last.rid).status = WITHDRAWN

\* C27: get_approval_history returns the history of a revision exactly
\* to the users can_view_revision lets view the revision, and fails with
\* an Authorization error for the others.
C27_HistoryMirrorsView ==
    \A r \in RevIds, u \in Users :
        Exists(session, r)
        => LET allowed == can_view_revision(u, role_of(u), Rev(session, r))
               verdict ==
                   approval_history_precheck(session, r, u, role_of(u))
           IN /\ allowed => verdict = "ok"
              /\ ~allowed => verdict = "AuthorizationError"

(* --------------------------- kept and unset --------------------------- *)

Unreviewed == {DRAFT, UNDER_REVIEW, REVISION_REQUESTED, WITHDRAWN}

ApproverFields(revision) ==
    [approver_id |-> revision.approver_id,
     approved_at |-> revision.approved_at,
     approval_comment |-> revision.approval_comment]

\* C28: approver_id, approved_at and approval_comment are unset while the
\* status is Draft, UnderReview, RevisionRequested or Withdrawn; the
\* approver and the time of approval are set once the status is Approved
\* or Rejected, whichever entry point made the move; and the three do
\* not change afterwards.
C28_ApproverFields ==
    /\ [](\A r \in RevIds :
            Exists(session, r)
            => LET revision == Rev(session, r)
               IN /\ revision.status \in Unreviewed
                      => /\ revision.approver_id = None
                         /\ revision.approved_at = FALSE
                         /\ revision.approval_comment = None
                  /\ revision.status \in {APPROVED, REJECTED}
                      => /\ revision.approver_id # None
                         /\ revision.approved_at = TRUE)
    /\ [][\A r \in RevIds :
            (Exists(session, r) /\ ~RolledBack
             /\ Rev(session, r).status \in {APPROVED, REJECTED})
            => /\ Exists(session', r)
               /\ ApproverFields(Rev(session', r))
                    = ApproverFields(Rev(session, r))]_vars

\* Sequence s is the beginning of sequence t.
IsPrefix(s, t) ==
    /\ Len(s) <= Len(t)
    /\ \A i \in 1..Len(s) : t[i] = s[i]

\* C29: no operation - edit, status transition or delete - modifies or
\* removes a RevisionEditHistory record: the committed records stay as
\* they are and in their order, and so do those of the unit of work
\* unless uncommitted work is discarded.
C29_EditHistoryAppendOnly ==
    [][/\ IsPrefix(store.edit_histories, store'.edit_histories)
       /\ ~RolledBack
           => IsPrefix(session.edit_histories,
                       session'.edit_histories)]_vars

\* delete_revision was called on a revision that has edit-history
\* records.
C29_Witness ==
    /\ last.op = "delete_revision"
    /\ last.outcome \in {"ok", "IntegrityError"}
    /\ HasEditHistory(store, last.rid)

\* submit_for_review with a notifier that raises.
submit_with_failing_notifier == submit_for_review_of({"notify"})

notification_attempts(op) ==
    IF op = "submit_for_review" THEN {"notify_revision_submitted"} ELSE {}

\* The notifier method that tells of a revision moved to a status.
notification_of(status) ==
    CASE status = UNDER_REVIEW -> "notify_revision_submitted"
      [] status = APPROVED -> "notify_revision_approved"
      [] status = REJECTED -> "notify_revision_rejected"
      [] status = REVISION_REQUESTED ->
             "notify_revision_modification_requested"
      [] OTHER -> None

\* C31: every successful approve, reject and request-modification is
\* followed by an attempted notification to the proposer, and every
\* successful submit by an attempted notification to the approvers.
C31_NotificationAttempted ==
    [][\A r \in RevIds :
        /\ last'.outcome = "ok"
        /\ StatusMoves(r)
        /\ Rev(store', r).status
               \in {UNDER_REVIEW, APPROVED, REJECTED, REVISION_REQUESTED}
        /\ Rev(store, r).status \in {DRAFT, UNDER_REVIEW}
        => notification_of(Rev(store', r).status)
               \in notification_attempts(last'.op)]_vars

(* ------------------------------ edit history ----------------------------- *)

\* The fields a record of the edit history lists in its changes.
ListedFields(history) == {c.field : c \in history.changes}

\* C32: every RevisionEditHistory record written by a content edit lists a
\* field in its changes exactly when the value of the field after the edit
\* differs from the value before; a field supplied again with the value it
\* has is not listed.
C32_ChangesAreDifferences ==
    [][\A r \in RevIds :
        /\ last'.op = "update_revision"
        /\ last'.rid = r
        /\ last'.outcome = "ok"
        /\ Len(store'.edit_histories) = Len(store.edit_histories) + 1
        => LET history ==
                   store'.edit_histories[Len(store'.edit_histories)]
           IN \A f \in Fields :
                  f \in ListedFields(history)
                      <=> Rev(store', r).after[f] # Rev(store, r).after[f]]_vars

(* ------------------------------ differences ------------------------------ *)

\* The list of fields calculate_field_changes compares.
fields_to_compare ==
    <<"title", "info_category", "keywords", "importance", "target",
      "question", "answer", "additional_comment", "publish_start",
      "publish_end">>

\* dict.get: the value under a key, None when the key is missing.
get(data, key) == IF key \in DOMAIN data THEN data[key] ELSE None

\* A comparison that takes a None after the edit for a change.
calculate_field_changes_listing_none(before_data, after_data) ==
    LET compared == {fields_to_compare[i] : i \in DOMAIN fields_to_compare}
        changed == {f \in compared :
                       \/ get(before_data, f) # get(after_data, f)
                       \/ f \in DOMAIN after_data /\ after_data[f] = None}
    IN [f \in changed |->
           [before |-> get(before_data, f), after |-> get(after_data, f)]]

\* EditHistoryService.calculate_field_changes: for each field of its list
\* whose values differ, the value before and the value after.
calculate_field_changes(before_data, after_data) ==
    LET compared == {fields_to_compare[i] : i \in DOMAIN fields_to_compare}
        changed == {f \in compared : get(before_data, f) # get(after_data, f)}
    IN [f \in changed |->
           [before |-> get(before_data, f), after |-> get(after_data, f)]]

\* The list of fields calculate_diff walks through.
calculate_diff_fields ==
    <<"title", "info_category", "keywords", "importance", "target",
      "question", "answer", "additional_comment", "publish_start",
      "publish_end">>

\* A difference that does not ask whether a value was proposed.
calculate_diff_of_any_difference(revision) ==
    LET is_modified(f) == revision.before[f] # revision.after[f]
    IN [modified_fields |-> SelectSeq(calculate_diff_fields, is_modified),
        diffs |-> [i \in DOMAIN calculate_diff_fields |->
            LET f == calculate_diff_fields[i]
            IN [field |-> f,
                before |-> revision.before[f],
                after |-> IF revision.after[f] # None
                          THEN revision.after[f] ELSE revision.before[f],
                is_modified |-> is_modified(f)]]]

\* RevisionService.calculate_diff for a revision it found: one entry for
\* each field, and the names of the modified fields.
calculate_diff(revision) ==
    LET is_modified(f) ==
            revision.after[f] # None /\ revision.before[f] # revision.after[f]
    IN [modified_fields |-> SelectSeq(calculate_diff_fields, is_modified),
        diffs |-> [i \in DOMAIN calculate_diff_fields |->
            LET f == calculate_diff_fields[i]
            IN [field |-> f,
                before |-> revision.before[f],
                after |-> IF revision.after[f] # None
                          THEN revision.after[f] ELSE revision.before[f],
                is_modified |-> is_modified(f)]]]

\* The keys and the values of the maps the differences are computed of:
\* two of the compared fields, and "reason", which no list of fields names.
DiffKeys == {"title", "importance", "reason"}
DiffValues == {"a", "b"}
DiffData ==
    UNION {[keys -> DiffValues \cup {None}] : keys \in SUBSET DiffKeys}

\* The before_* and after_* columns of a revision that holds the two maps;
\* a column that was given no value is None.
revision_columns(before_data, after_data) ==
    LET columns == {calculate_diff_fields[i] :
                       i \in DOMAIN calculate_diff_fields}
    IN [before |-> [f \in columns |-> get(before_data, f)],
        after |-> [f \in columns |-> get(after_data, f)]]

InitDiff ==
    /\ session = EmptyData
    /\ store = EmptyData
    /\ next_id = 0
    /\ calls = [p \in Procs |-> Idle]
    /\ edits = [r \in RevIds |-> 0]
    /\ rounds = [r \in RevIds |-> 0]
    /\ \E before_data \in DiffData, after_data \in DiffData :
           last = [op |-> "input", rid |-> 0, outcome |-> "ok",
                   before_data |-> before_data, after_data |-> after_data,
                   result |-> <<>>]

apply_calculate_field_changes ==
    /\ last' = [last EXCEPT
                   !.op = "calculate_field_changes",
                   !.outcome = "ok",
                   !.result = calculate_field_changes(last.before_data,
                                                      last.after_data)]
    /\ UNCHANGED <<session, store, next_id, calls, edits, rounds>>

\* calculate_diff for a revision that holds the two maps (found) or for an
\* id no revision carries.
apply_calculate_diff ==
    \E found \in BOOLEAN :
        /\ last' = [last EXCEPT
               !.op = "calculate_diff",
               !.outcome = IF found THEN "ok" ELSE "NotFoundError",
               !.result = IF found
                          THEN calculate_diff(
                                   revision_columns(last.before_data,
                                                    last.after_data))
                          ELSE <<>>]
        /\ UNCHANGED <<session, store, next_id, calls, edits, rounds>>

NextDiff ==
    \/ apply_calculate_field_changes
    \/ apply_calculate_diff

SpecDiff == InitDiff /\ [][NextDiff]_vars

\* C33: calculate_field_changes(before, after) has an entry {before, after}
\* for a field exactly when the two values differ, for every field that is
\* a key of either map (a missing key counts as None), not only for the
\* fields of a fixed list.
C33_EveryKeyCompared ==
    last.op = "calculate_field_changes"
    => \A f \in DOMAIN last.before_data \cup DOMAIN last.after_data :
           IF get(last.before_data, f) # get(last.after_data, f)
           THEN /\ f \in DOMAIN last.result
                /\ last.result[f] = [before |-> get(last.before_data, f),
                                     after |-> get(last.after_data, f)]
           ELSE f \notin DOMAIN last.result

\* C34: calculate_field_changes(X, X) is empty for every X, those with
\* None values among them.
C34_NoChangeOnEqualData ==
    /\ last.op = "calculate_field_changes"
    /\ last.before_data = last.after_data
    => DOMAIN last.result = {}

\* The two maps are the same, hold a None and a value that is not None,
\* and no change was computed.
C34_Witness ==
    /\ last.op = "calculate_field_changes"
    /\ last.before_data = last.after_data
    /\ \E f \in DOMAIN last.before_data : last.before_data[f] = None
    /\ \E f \in DOMAIN last.before_data : last.before_data[f] # None
    /\ DOMAIN last.result = {}

\* The editable fields, in the order of the revision's columns.
EditableFields ==
    <<"title", "info_category", "keywords", "importance", "target",
      "question", "answer", "additional_comment", "publish_start",
      "publish_end">>

\* The entries of a difference that are marked as modified, in order.
MarkedModified(diffs) ==
    LET marked(i) == diffs[i].is_modified
        picked == SelectSeq([i \in DOMAIN diffs |-> i], marked)
    IN [k \in DOMAIN picked |-> diffs[picked[k]].field]

\* C36: calculate_diff returns one entry for each editable field, with
\* is_modified = (after is not null and before differs from after); when
\* after is null the entry's after echoes before and is_modified is false;
\* modified_fields are exactly the fields with is_modified true, in the
\* order of the fields.
C36_DiffPerField ==
    /\ last.op = "calculate_diff"
    /\ last.outcome = "ok"
    => LET before_of(f) == get(last.before_data, f)
           after_of(f) == get(last.after_data, f)
           diffs == last.result.diffs
       IN /\ Len(diffs) = Len(EditableFields)
          /\ \A i \in DOMAIN EditableFields :
                LET f == EditableFields[i]
                IN /\ diffs[i].field = f
                   /\ diffs[i].before = before_of(f)
                   /\ diffs[i].is_modified
                          = (after_of(f) # None /\ before_of(f) # after_of(f))
                   /\ after_of(f) # None => diffs[i].after = after_of(f)
                   /\ after_of(f) = None
                          => /\ diffs[i].after = before_of(f)
                             /\ ~diffs[i].is_modified
          /\ last.result.modified_fields = MarkedModified(diffs)

\* A difference was computed of a revision that proposes a new title and
\* no importance where the article has one.
C36_Witness ==
    /\ last.op = "calculate_diff"
    /\ last.outcome = "ok"
    /\ get(last.before_data, "title") = "a"
    /\ get(last.after_data, "title") = "b"
    /\ get(last.before_data, "importance") = "a"
    /\ get(last.after_data, "importance") = None
    /\ last.result.modified_fields = <<"title">>
    /\ last.result.diffs[4].after = "a"

(* ---------------------------- version differences ------------------------ *)

\* A sequence in the opposite order.
Reverse(s) == [i \in DOMAIN s |-> s[Len(s) + 1 - i]]

\* RevisionEditHistoryRepository.get_by_revision: the records of a
\* revision, the one edited last first.
get_by_revision(d, revision_id) ==
    LET of_revision(h) == h.revision_id = revision_id
    IN Reverse(SelectSeq(d.edit_histories, of_revision))

\* The entry of a field in the changes of a record.
change_of(history, field) == CHOOSE c \in history.changes : c.field = field

\* What get_version_diff makes of the records it was handed: those of the
\* range, and for each field they list the first before, the last after
\* and every change, in the order of the listing.
combined_changes(histories, from_version, to_version) ==
    LET in_range(h) == /\ h.version_before >= from_version
                       /\ h.version_after <= to_version
        relevant_histories == SelectSeq(histories, in_range)
        fields == UNION {ListedFields(relevant_histories[i]) :
                            i \in DOMAIN relevant_histories}
    IN [changes |-> [f \in fields |->
            LET lists(h) == f \in ListedFields(h)
                of_field == SelectSeq(relevant_histories, lists)
            IN [initial_value |-> change_of(of_field[1], f).before,
                final_value |-> change_of(of_field[Len(of_field)], f).after,
                change_history |-> [i \in DOMAIN of_field |->
                    [version |-> of_field[i].version_after,
                     editor_id |-> of_field[i].editor_id,
                     from |-> change_of(of_field[i], f).before,
                     to |-> change_of(of_field[i], f).after]]]],
        total_edits |-> Len(relevant_histories)]

get_version_diff_of(d, revision_id, from_version, to_version) ==
    combined_changes(get_by_revision(d, revision_id), from_version, to_version)

\* GET /revisions/{id}/version-diff
get_version_diff ==
    \E revision_id \in RevIds, from_version \in 1..MaxVersion,
       to_version \in 1..MaxVersion :
        /\ last' = [op |-> "get_version_diff", rid |-> revision_id,
                    outcome |-> "ok",
                    from_version |-> from_version,
                    to_version |-> to_version,
                    result |-> get_version_diff_of(session, revision_id,
                                                   from_version, to_version)]
        /\ UNCHANGED <<session, store, next_id, calls, edits, rounds>>

\* Edits of one revision, and the differences between its versions.
NextVersionDiff ==
    \/ create_draft
    \/ edit_revision
    \/ get_version_diff

SpecVersionDiff == Init /\ [][NextVersionDiff]_vars

\* The records of revision r with version_before >= from and
\* version_after <= to, in the order the edits were made.
EditsBetween(d, r, from, to) ==
    LET matches(h) == /\ h.revision_id = r
                      /\ h.version_before >= from
                      /\ h.version_after <= to
    IN SelectSeq(d.edit_histories, matches)

\* C35: get_version_diff consolidates exactly the records with
\* version_before >= from and version_after <= to: total_edits is their
\* number, and for each field they list, initial_value is the value before
\* the earliest of those edits and final_value the value after the latest;
\* when none matches, the changes are empty and total_edits is 0.
C35_VersionDiffConsolidates ==
    last.op = "get_version_diff"
    => LET matching == EditsBetween(store, last.rid, last.from_version,
                                    last.to_version)
           listed == UNION {ListedFields(matching[i]) : i \in DOMAIN matching}
       IN /\ last.result.total_edits = Len(matching)
          /\ DOMAIN last.result.changes = listed
          /\ \A f \in listed :
                LET lists(h) == f \in ListedFields(h)
                    of_field == SelectSeq(matching, lists)
                IN /\ last.result.changes[f].initial_value
                          = change_of(of_field[1], f).before
                   /\ last.result.changes[f].final_value
                          = change_of(of_field[Len(of_field)], f).after

(* --------------------------- concurrent decisions ------------------------ *)

\* The audit records of revision r with a terminal action.
TerminalRecords(d, r) ==
    LET terminal(h) == /\ h.revision_id = r
                       /\ h.action \in {"approved", "rejected"}
    IN SelectSeq(d.approval_histories, terminal)

\* The call of p ends in this step, and the call that ended before it, on
\* the same revision and past its checks as well, ended while p ran.
SecondOfTwoDecisions(p) ==
    /\ calls[p].pc = "decide"
    /\ calls'[p] = Idle
    /\ last.op \in {"approve_revision", "reject_revision"}
    /\ last.rid = calls[p].revision_id
    /\ last.outcome \in {"ok", "TypeError"}

\* C37: when approve_revision and reject_revision (or two approvals) run
\* concurrently on the same UnderReview revision, at most one succeeds;
\* the revision ends in exactly one terminal status with exactly one
\* ApprovalHistory record of a terminal action, and approver_id and
\* approval_comment are those of the call that succeeded.
C37_OneDecisionWins ==
    [][\A p \in Procs :
        SecondOfTwoDecisions(p)
        => LET r == calls[p].revision_id
           IN /\ ~(last.outcome = "ok" /\ last'.outcome = "ok")
              /\ Rev(store', r).status \in {APPROVED, REJECTED}
              /\ Len(TerminalRecords(store', r)) = 1
              /\ Rev(store', r).approver_id # None
              /\ last'.outcome = "ok"
                     => /\ Rev(store', r).approver_id = calls[p].user_id
                        /\ Rev(store', r).approval_comment
                               = calls[p].comment]_vars

(* ------------------------ rejection by either service -------------------- *)

\* The fields a rejection leaves on the revision; approved_at as set or not.
RejectionFields(revision) ==
    [status |-> revision.status,
     approver_id |-> revision.approver_id,
     approved_at |-> revision.approved_at,
     approval_comment |-> revision.approval_comment]

\* C38: rejecting through WorkflowService.transition_status(REJECTED,
\* comment=c) leaves the revision with the same status, approver_id,
\* approval_comment and approved_at-is-set as ApprovalService.reject_revision
\* with the same actor and comment.
C38_RejectionPathsAgree ==
    [][\A r \in RevIds, c \in {"c"} :
        /\ last'.op = "transition_status"
        /\ last'.outcome = "ok"
        /\ StatusMoves(r)
        /\ Rev(session', r).status = REJECTED
        /\ Rev(session', r)
               = transitioned(Rev(session, r), REJECTED,
                              Rev(session', r).approver_id, c)
        /\ reject_precheck(session, r,
                           role_of(Rev(session', r).approver_id), c) = "ok"
        => RejectionFields(Rev(session', r))
               = RejectionFields(rejected(Rev(session, r),
                                          Rev(session', r).approver_id, c))]_vars

(* ------------------------------ self-approval ---------------------------- *)

\* User.can_approve
can_approve(user_id) ==
    role_of(user_id) \in {APPROVER, ADMIN} \/ is_sv(user_id)

\* PermissionChecker.can_approve_revision
checker_can_approve_revision(user_id, revision) ==
    IF ~can_approve(user_id) THEN FALSE
    ELSE IF revision.proposer_id = user_id THEN FALSE
    ELSE revision.status \in {UNDER_REVIEW, REVISION_REQUESTED}

\* PermissionChecker.can_request_modification
checker_can_request_modification(user_id, revision) ==
    IF ~can_approve(user_id) THEN FALSE
    ELSE IF revision.proposer_id = user_id THEN FALSE
    ELSE revision.status = UNDER_REVIEW

\* The users with approval rights.
Reviewers == {u \in Users : can_approve(u) \/ role_of(u) \in ApproverRoles}

\* C39: no self-approval.  A user with approval rights who is the proposer
\* of a revision can neither approve it nor request a modification of it,
\* whatever its status, through every entry point: the permission checker
\* refuses, no transition to Approved or RevisionRequested is made by the
\* proposer, no approved revision has its proposer as approver and no
\* instruction comes from the proposer of its revision.
C39_NoSelfApproval ==
    /\ [](\A r \in RevIds :
            Exists(session, r)
            => /\ ~checker_can_approve_revision(
                       Rev(session, r).proposer_id, Rev(session, r))
               /\ ~checker_can_request_modification(
                       Rev(session, r).proposer_id, Rev(session, r))
               /\ Rev(session, r).status = APPROVED
                      => Rev(session, r).approver_id
                             # Rev(session, r).proposer_id)
    /\ [](\A i \in DOMAIN store.instructions :
            Exists(store, store.instructions[i].revision_id)
            => store.instructions[i].instructor_id
                   # Rev(store, store.instructions[i].revision_id).proposer_id)
    /\ [][\A u \in Reviewers, r \in RevIds :
            /\ transition_status_of({u}, {APPROVED, REVISION_REQUESTED})
            /\ last'.rid = r
            /\ last'.outcome = "ok"
            /\ StatusMoves(r)
            => Rev(session, r).proposer_id # u]_vars

(* ----------------------------- supplied fields --------------------------- *)

\* C40: a successful update_revision applies every editable field the
\* request supplies to the matching after_* column; no supplied field is
\* dropped while the version is incremented.
C40_SuppliedFieldsApplied ==
    [][\A u \in EditUsers, request \in UpdateData, r \in RevIds :
        /\ update_revision_of({u}, {request}, {"none"})
        /\ last'.rid = r
        /\ last'.outcome = "ok"
        /\ Rev(store', r).version = Rev(store, r).version + 1
        => \A f \in Fields :
               /\ request.has_modifications
               /\ request.modifications[f] # None
               => Rev(store', r).after[f] = request.modifications[f]]_vars

====
